---- MODULE Spec2Model ----
(***************************************************************************)
(* goget: import path -> git URL resolution, the single fetch pipeline and *)
(* the bounded parallel batch runner (src/unnamed/part_000, the current    *)
(* main.go of the repository).                                             *)
(*                                                                         *)
(* Go strings are modelled as sequences of one-character strings, so that  *)
(* Split, Join, HasPrefix, CutPrefix, Index and Fields are computed, not   *)
(* assumed.                                                                *)
(***************************************************************************)
EXTENDS Integers, Sequences, FiniteSets, TLC

VARIABLES
    \* ---- batch run (main with --mod, runGoGetParallel, runGoGet) ----
    deps,            \* []string handed to runGoGetParallel
    gopath,          \* GOPATH environment value
    useHTTPS,        \* --https flag
    fs,              \* marker files present on disk (go.mod / .git paths)
    fs0,             \* the marker files present when the run started
    results,         \* results []DependencyResult, one slot per dep
    writers,         \* per slot, the workers that have stored into it, in order
    outOfOrder,      \* some worker stored before a worker started earlier had
    pcMain,          \* position of the main goroutine
    next,            \* loop variable i of `for i, dep := range deps` (1-based)
    active,          \* goroutines holding an errgroup semaphore token
    outputMutex,     \* 0 = unlocked, w = held by worker w
    parentCancelled, \* the caller's ctx has been cancelled
    groupCancelled,  \* the errgroup's derived ctx has been cancelled by the group
    pc,              \* position of each worker goroutine
    loc,             \* each worker's captured and local variables
    exitCode,        \* process exit status (-1 while running)
    successCount,
    failureCount,
    \* ---- URL resolution (getRepositoryURLWithClient) ----
    rstate,          \* "off" | "ready" | "done"
    rq,              \* the request: domain, rest segments, useHTTPS, client's answer
    ru,              \* the URL returned
    httpCalls,       \* number of client.Get calls issued
    \* ---- readers (parseGoImportMeta's tokenizer, parseGoMod's scanner) ----
    cursor,          \* tokens or lines consumed so far
    inRequireBlock,  \* parseGoMod's inRequireBlock
    \* ---- calls made to the outside, in order: os.Stat, git clone ----
    calls

vars == <<deps, gopath, useHTTPS, fs, fs0, results, writers, outOfOrder, pcMain, next,
          active, outputMutex, parentCancelled, groupCancelled, pc, loc, exitCode,
          successCount, failureCount, rstate, rq, ru, httpCalls, cursor, inRequireBlock,
          calls>>

batchVars == <<deps, gopath, useHTTPS, fs, fs0, results, writers, outOfOrder, pcMain, next,
               active, outputMutex, parentCancelled, groupCancelled, pc, loc, exitCode,
               successCount, failureCount>>

resolveVars == <<rstate, rq, ru, httpCalls>>

scanVars == <<cursor, inRequireBlock, calls>>

----------------------------------------------------------------------------
(* Bounds of the model *)

\* longest dependency list of a fine-grained batch run
MaxDeps == 2
\* dependency lists of the pool runs have Limit .. Limit+MaxExtra entries
MaxExtra == 1
\* most path segments after the domain of a resolved import path
MaxRest == 3
\* most tokens in the body of a discovery response
MaxTags == 2
\* most lines in a manifest
MaxLines == 3

----------------------------------------------------------------------------
(* strings *)

Nil == "nil"
Empty == <<>>
Slash == <<"/">>
Dot == <<".">>
DotDot == <<".", ".">>

HasPrefix(s, prefix) ==
    Len(prefix) <= Len(s) /\ SubSeq(s, 1, Len(prefix)) = prefix

HasSuffix(s, suffix) ==
    Len(suffix) <= Len(s) /\ SubSeq(s, Len(s) - Len(suffix) + 1, Len(s)) = suffix

TrimPrefix(s, prefix) ==
    IF HasPrefix(s, prefix) THEN SubSeq(s, Len(prefix) + 1, Len(s)) ELSE s

TrimSuffix(s, suffix) ==
    IF HasSuffix(s, suffix) THEN SubSeq(s, 1, Len(s) - Len(suffix)) ELSE s

\* strings.Contains(s, c) for a one-character c
Contains(s, c) == \E i \in 1..Len(s) : s[i] = c

\* strings.Index(s, c) for a one-character c: 0-based, -1 when absent
RECURSIVE IndexFrom(_, _, _)
IndexFrom(s, c, i) ==
    IF i > Len(s) THEN -1
    ELSE IF s[i] = c THEN i - 1
    ELSE IndexFrom(s, c, i + 1)

Index(s, c) == IndexFrom(s, c, 1)

\* strings.Split(s, c): never empty, Split("", c) = [""]
RECURSIVE Split(_, _)
\* the split of s, whose first c is at the 0-based position i
SplitAt(s, c, i) ==
    IF i = -1 THEN <<s>>
    ELSE <<SubSeq(s, 1, i)>> \o Split(SubSeq(s, i + 2, Len(s)), c)

Split(s, c) == SplitAt(s, c, Index(s, c))

RECURSIVE Join(_, _)
Join(parts, sep) ==
    IF Len(parts) = 0 THEN Empty
    ELSE IF Len(parts) = 1 THEN parts[1]
    ELSE parts[1] \o sep \o Join(Tail(parts), sep)

IsSpace(c) == c \in {" ", "\t", "\n", "\r"}

\* strings.Fields(s): the maximal runs of non-space characters
RECURSIVE FieldsFrom(_, _, _)
FieldsFrom(s, cur, acc) ==
    IF s = Empty THEN (IF cur = Empty THEN acc ELSE Append(acc, cur))
    ELSE IF IsSpace(Head(s))
         THEN FieldsFrom(Tail(s), Empty, IF cur = Empty THEN acc ELSE Append(acc, cur))
         ELSE FieldsFrom(Tail(s), Append(cur, Head(s)), acc)

Fields(s) == FieldsFrom(s, Empty, <<>>)

RECURSIVE TrimLeft(_)
TrimLeft(s) == IF s # Empty /\ IsSpace(Head(s)) THEN TrimLeft(Tail(s)) ELSE s

RECURSIVE TrimRight(_)
TrimRight(s) ==
    IF s # Empty /\ IsSpace(s[Len(s)]) THEN TrimRight(SubSeq(s, 1, Len(s) - 1)) ELSE s

\* strings.TrimSpace
TrimSpace(s) == TrimRight(TrimLeft(s))

----------------------------------------------------------------------------
(* string constants of the program *)

GithubCom == <<"g","i","t","h","u","b",".","c","o","m">>
GitlabCom == <<"g","i","t","l","a","b",".","c","o","m">>
BitbucketOrg == <<"b","i","t","b","u","c","k","e","t",".","o","r","g">>
GolangOrg == <<"g","o","l","a","n","g",".","o","r","g">>
GoogleGolangOrg == <<"g","o","o","g","l","e",".">> \o GolangOrg
GoOpentelemetryIo == <<"g","o",".","o","p","e","n","t","e","l","e","m","e","t","r","y",".","i","o">>

GolangOrgXPrefix == GolangOrg \o <<"/","x","/">>
GoogleGolangOrgPrefix == GoogleGolangOrg \o Slash
GoOpentelemetryIoPrefix == GoOpentelemetryIo \o Slash

GoGooglesourceURL == <<"h","t","t","p","s",":","/","/","g","o",".","g","o","o","g","l","e",
                       "s","o","u","r","c","e",".","c","o","m","/">>
HttpsScheme == <<"h","t","t","p","s",":","/","/">>
GithubGoogleapisURL == HttpsScheme \o GithubCom \o <<"/","g","o","o","g","l","e","a","p","i","s","/">>
GithubOpenTelemetryURL ==
    HttpsScheme \o GithubCom \o <<"/","o","p","e","n","-","t","e","l","e","m","e","t","r","y","/">>
GitAt == <<"g","i","t","@">>
Colon == <<":">>
DotGit == <<".","g","i","t">>
GoImport == <<"g","o","-","i","m","p","o","r","t">>
Git == <<"g","i","t">>
Ellipsis == <<"/",".",".",".">>
Src == <<"s","r","c">>
SrcSlash == Src \o Slash
GoMod == <<"g","o",".","m","o","d">>
DotGitDir == <<".","g","i","t">>
StatusOK == 200

----------------------------------------------------------------------------
(* discovery: discoverGoImport, parseGoImportMeta *)

ErrFetch == "failed to fetch"
ErrStatus == "got status"
ErrNoMeta == "no go-import meta tag found"
ErrRead == "tokenizer.Err()"

Failed(e) == [vcs |-> Empty, repoURL |-> Empty, err |-> e]

\* the loop over token.Attr: the last attribute with the key wins
RECURSIVE AttrVal(_, _, _)
AttrVal(attrs, key, val) ==
    IF attrs = <<>> THEN val
    ELSE AttrVal(Tail(attrs), key, IF Head(attrs).Key = key THEN Head(attrs).Val ELSE val)

\* no directive taken from a token: the loop continues
NoDirective == [ok |-> FALSE, vcs |-> Empty, repoURL |-> Empty]

ThreeOrMoreFields(parts) == Len(parts) >= 3

\* if len(parts) != 3 { continue }
ThreeFields(parts) == Len(parts) = 3

SegmentPrefix(importPath, prefix) ==
    importPath = prefix \/ HasPrefix(importPath, prefix \o Slash)

AnyPrefix(importPath, prefix) == TRUE

\* if !strings.HasPrefix(importPath, prefix) { continue }
PrefixMatches(importPath, prefix) == HasPrefix(importPath, prefix)

\* parts := strings.Fields(content), then the two checks on it
directiveOf(parts, importPath) ==
    IF ~ThreeFields(parts) THEN NoDirective
    ELSE IF ~PrefixMatches(importPath, parts[1]) THEN NoDirective
    ELSE [ok |-> TRUE, vcs |-> parts[2], repoURL |-> parts[3]]

\* one pass of the loop body on a start or self-closing tag token
tokenDirective(token, importPath) ==
    IF token.Type \notin {"StartTag", "SelfClosingTag"} \/ token.Data # "meta"
    THEN NoDirective
    ELSE IF AttrVal(token.Attr, "name", Empty) # GoImport THEN NoDirective
    ELSE directiveOf(Fields(AttrVal(token.Attr, "content", Empty)), importPath)

RECURSIVE parseGoImportMeta(_, _)
\* parseGoImportMeta after the token at the head of r gave the directive d
parseGoImportMetaAfter(d, r, importPath) ==
    IF d.ok THEN [vcs |-> d.vcs, repoURL |-> d.repoURL, err |-> Nil]
    ELSE parseGoImportMeta(Tail(r), importPath)

\* r is the token stream of the body; its end is io.EOF, an "ErrorToken" in it is
\* a read error
parseGoImportMeta(r, importPath) ==
    IF r = <<>> THEN Failed(ErrNoMeta)
    ELSE IF Head(r).Type = "ErrorToken" THEN Failed(ErrRead)
    ELSE parseGoImportMetaAfter(tokenDirective(Head(r), importPath), r, importPath)

AnyStatus(code) == TRUE

\* resp.StatusCode == http.StatusOK
OkStatus(code) == code = StatusOK

\* client is what client.Get answers: [err, StatusCode, Body]
discoverGoImport(importPath, client) ==
    IF client.err THEN Failed(ErrFetch)
    ELSE IF ~OkStatus(client.StatusCode) THEN Failed(ErrStatus)
    ELSE parseGoImportMeta(client.Body, importPath)

----------------------------------------------------------------------------
(* URL resolution *)

isCommonGitHost(domain) == domain \in {GithubCom, GitlabCom, BitbucketOrg}

wellKnownGoDomainsNone == {}

wellKnownGoDomains == {GolangOrg, GoogleGolangOrg, GoOpentelemetryIo}

\* shouldUseDiscovery after parts := strings.Split(importPath, "/")
discoveryFor(importPath, parts) ==
    IF Len(parts) = 0 THEN FALSE
    ELSE IF isCommonGitHost(parts[1]) THEN FALSE
    ELSE IF \E knownDomain \in wellKnownGoDomains :
                parts[1] = knownDomain \/ HasPrefix(importPath, knownDomain \o Slash)
         THEN FALSE
    ELSE TRUE

shouldUseDiscovery(importPath) == discoveryFor(importPath, Split(importPath, "/"))

VendorRepoWhole(repo) == repo

\* "Remove any subpackage paths - just get the main repo name"
VendorRepo(repo) ==
    LET idx == Index(repo, "/")
    IN  IF idx # -1 THEN SubSeq(repo, 1, idx) ELSE repo

HostRepoAll(parts) == Join(Tail(parts), Slash)

\* "Take only domain/user/repo for the git URL": strings.Join(parts[1:3], "/")
HostRepo(parts) == Join(SubSeq(parts, 2, 3), Slash)

GenericRepoFirst(parts) == parts[2]

\* the generic rule keeps the whole path: strings.Join(parts[1:], "/")
GenericRepo(parts) == Join(Tail(parts), Slash)

FormatURL(domain, repo, https) ==
    IF https THEN HttpsScheme \o domain \o Slash \o repo \o DotGit
    ELSE GitAt \o domain \o Colon \o repo \o DotGit

\* the host rules, after parts := strings.Split(importPath, "/")
hostURL(parts, https) ==
    IF Len(parts) = 0 THEN Empty
    ELSE IF isCommonGitHost(parts[1]) /\ Len(parts) >= 3
    THEN FormatURL(parts[1], HostRepo(parts), https)
    ELSE IF Len(parts) > 1
    THEN FormatURL(parts[1], GenericRepo(parts), https)
    ELSE IF https THEN HttpsScheme \o parts[1] \o DotGit
    ELSE GitAt \o parts[1] \o DotGit

\* the rules after the discovery attempt
heuristicURL(importPath, https) ==
    IF HasPrefix(importPath, GolangOrgXPrefix)
    THEN GoGooglesourceURL \o VendorRepo(TrimPrefix(importPath, GolangOrgXPrefix))
    ELSE IF HasPrefix(importPath, GoogleGolangOrgPrefix)
    THEN GithubGoogleapisURL \o VendorRepo(TrimPrefix(importPath, GoogleGolangOrgPrefix))
    ELSE IF HasPrefix(importPath, GoOpentelemetryIoPrefix)
    THEN GithubOpenTelemetryURL
             \o VendorRepo(TrimPrefix(importPath, GoOpentelemetryIoPrefix))
    ELSE hostURL(Split(importPath, "/"), https)

\* the number of client.Get calls one resolution issues
discoveryCalls(importPath) == IF shouldUseDiscovery(importPath) THEN 1 ELSE 0

AnyVcs(vcs) == TRUE

\* if vcs == "git"
GitVcs(vcs) == vcs = Git

\* getRepositoryURLWithClient after discoverGoImport has answered d
discoveredURL(d, importPath, https) ==
    IF d.err = Nil /\ GitVcs(d.vcs) THEN d.repoURL
    ELSE heuristicURL(importPath, https)

getRepositoryURLHeuristicOnly(importPath, https, client) == heuristicURL(importPath, https)

getRepositoryURLWithClient(importPath, https, client) ==
    IF shouldUseDiscovery(importPath)
    THEN discoveredURL(discoverGoImport(importPath, client), importPath, https)
    ELSE heuristicURL(importPath, https)

\* getRepositoryURL passes a nil client: the real network answers, in any way
getRepositoryURL(importPath, https, network) ==
    getRepositoryURLWithClient(importPath, https, network)

----------------------------------------------------------------------------
(* path/filepath *)

IsAbs(path) == Len(path) > 0 /\ path[1] = "/"

RECURSIVE CleanParts(_, _, _)
CleanParts(parts, acc, rooted) ==
    IF parts = <<>> THEN acc
    ELSE LET h == Head(parts)
             t == Tail(parts)
         IN  IF h = Empty \/ h = Dot THEN CleanParts(t, acc, rooted)
             ELSE IF h = DotDot
             THEN IF Len(acc) > 0 /\ acc[Len(acc)] # DotDot
                  THEN CleanParts(t, SubSeq(acc, 1, Len(acc) - 1), rooted)
                  ELSE IF rooted THEN CleanParts(t, acc, rooted)
                  ELSE CleanParts(t, Append(acc, DotDot), rooted)
             ELSE CleanParts(t, Append(acc, h), rooted)

\* filepath.Clean
Clean(path) ==
    IF path = Empty THEN Dot
    ELSE LET rooted == IsAbs(path)
             body == Join(CleanParts(Split(path, "/"), <<>>, rooted), Slash)
         IN  IF rooted THEN Slash \o body
             ELSE IF body = Empty THEN Dot ELSE body

RECURSIVE NonEmpty(_)
NonEmpty(elems) ==
    IF elems = <<>> THEN <<>>
    ELSE IF Head(elems) = Empty THEN NonEmpty(Tail(elems))
    ELSE <<Head(elems)>> \o NonEmpty(Tail(elems))

\* filepath.Join: empty elements are ignored, the result is cleaned
FilepathJoin(elems) ==
    IF NonEmpty(elems) = <<>> THEN Empty ELSE Clean(Join(NonEmpty(elems), Slash))

\* the working directory of the process
ProcessCwd == <<"/","w">>

\* filepath.Abs
Abs(path) == IF IsAbs(path) THEN Clean(path) ELSE FilepathJoin(<<ProcessCwd, path>>)

RECURSIVE CommonLen(_, _)
CommonLen(a, b) ==
    IF a = <<>> \/ b = <<>> THEN 0
    ELSE IF Head(a) = Head(b) THEN 1 + CommonLen(Tail(a), Tail(b))
    ELSE 0

\* filepath.Rel(basepath, targpath): [rel, err]
Rel(basepath, targpath) ==
    LET base == Clean(basepath)
        targ == Clean(targpath)
        bs == NonEmpty(Split(IF base = Dot THEN Empty ELSE base, "/"))
        ts == NonEmpty(Split(IF targ = Dot THEN Empty ELSE targ, "/"))
        k == CommonLen(bs, ts)
        ups == [i \in 1..(Len(bs) - k) |-> DotDot]
    IN  IF targ = base THEN [rel |-> Dot, err |-> Nil]
        ELSE IF IsAbs(base) # IsAbs(targ) THEN [rel |-> Empty, err |-> "Rel"]
        ELSE IF ~IsAbs(base) /\ k < Len(bs) /\ bs[k + 1] = DotDot
        THEN [rel |-> Empty, err |-> "Rel"]
        ELSE [rel |-> Join(ups \o SubSeq(ts, k + 1, Len(ts)), Slash), err |-> Nil]

----------------------------------------------------------------------------
(* the fetch pipeline's pure steps *)

ErrEmptyPath == "empty import path"
ErrNotDomain == "first part of package path should be a domain name"
ErrNoGopath == "cannot clone without GOPATH set"
ErrNoWorkingDir == "working directory required for relative paths"
ErrRel == "could not construct relationship"
ErrOutsideSrc == "working directory should be contained inside $GOPATH/src"
ErrNoURL == "could not determine git URL"
ErrClone == "error running git: exit status"
ErrCtxCanceled == "error running git: context canceled"
ErrKilled == "error running git: signal: killed"

parseImportPath(arg) ==
    IF arg = Empty THEN [importPath |-> Empty, hasEllipsis |-> FALSE, err |-> ErrEmptyPath]
    ELSE IF HasSuffix(arg, Ellipsis)
    THEN [importPath |-> TrimSuffix(arg, Ellipsis), hasEllipsis |-> TRUE, err |-> Nil]
    ELSE [importPath |-> arg, hasEllipsis |-> FALSE, err |-> Nil]

validateAlways(importPath) == Nil

validateImportPath(importPath) ==
    LET parts == Split(importPath, "/")
    IN  IF Len(parts) = 0 THEN "no package to retrieve"
        ELSE IF ~Contains(parts[1], ".") THEN ErrNotDomain
        ELSE Nil

NoConfig == [GOPATH |-> Empty, WorkingDir |-> Empty, ImportPath |-> Empty,
             HasEllipsis |-> FALSE]

\* resolveConfig: [config, err]
resolveConfig(arg, gp, workingDir) ==
    LET p == parseImportPath(arg)
        first == IF Contains(gp, ":") THEN SubSeq(gp, 1, Index(gp, ":")) ELSE gp
    IN  IF p.err # Nil THEN [config |-> NoConfig, err |-> p.err]
        ELSE IF validateImportPath(p.importPath) # Nil
        THEN [config |-> NoConfig, err |-> validateImportPath(p.importPath)]
        ELSE IF gp = Empty THEN [config |-> NoConfig, err |-> ErrNoGopath]
        ELSE [config |-> [GOPATH |-> Abs(first), WorkingDir |-> workingDir,
                          ImportPath |-> p.importPath, HasEllipsis |-> p.hasEllipsis],
              err |-> Nil]

NoCmd == [URL |-> Empty, TargetPath |-> Empty, Args |-> <<>>]

GitCommandBare(gitURL, checkoutPath) ==
    [URL |-> gitURL, TargetPath |-> checkoutPath, Args |-> <<"clone", gitURL, checkoutPath>>]

GitCommand(gitURL, checkoutPath) ==
    [URL |-> gitURL, TargetPath |-> checkoutPath,
     Args |-> <<"clone", "--quiet", gitURL, checkoutPath>>]

\* buildGitCommand: [cmd, err]; network is what a discovery request would be answered
buildGitCommand(config, https, network) ==
    IF HasPrefix(config.ImportPath, Dot)
    THEN LET absWD == Abs(config.WorkingDir)
             r == Rel(config.GOPATH, absWD)
             pkgstart == TrimPrefix(r.rel, SrcSlash)
             fullpkg == FilepathJoin(<<pkgstart, config.ImportPath>>)
             gitURL == getRepositoryURL(fullpkg, https, network)
         IN  IF config.WorkingDir = Empty THEN [cmd |-> NoCmd, err |-> ErrNoWorkingDir]
             ELSE IF r.err # Nil THEN [cmd |-> NoCmd, err |-> ErrRel]
             ELSE IF ~HasPrefix(r.rel, SrcSlash) THEN [cmd |-> NoCmd, err |-> ErrOutsideSrc]
             ELSE IF gitURL = Empty THEN [cmd |-> NoCmd, err |-> ErrNoURL]
             ELSE [cmd |-> GitCommand(gitURL, config.ImportPath), err |-> Nil]
    ELSE LET checkoutPath == FilepathJoin(<<config.GOPATH, Src, config.ImportPath>>)
             gitURL == getRepositoryURL(config.ImportPath, https, network)
         IN  IF gitURL = Empty THEN [cmd |-> NoCmd, err |-> ErrNoURL]
             ELSE [cmd |-> GitCommand(gitURL, checkoutPath), err |-> Nil]

\* the two files executeGitCommand stats, in the order it stats them
modFile(cmd) == FilepathJoin(<<cmd.TargetPath, GoMod>>)
gitDir(cmd) == FilepathJoin(<<cmd.TargetPath, DotGitDir>>)

----------------------------------------------------------------------------
(* inputs *)

ExampleCom == <<"e","x","a","m","p","l","e",".","c","o","m">>
Crypto == <<"c","r","y","p","t","o">>
Ssh == <<"s","s","h">>
DiscoveredRepo == HttpsScheme \o <<"h","/","r">>
Hg == <<"h","g">>

MetaTag(name, content) ==
    [Type |-> "SelfClosingTag", Data |-> "meta",
     Attr |-> <<[Key |-> "name", Val |-> name], [Key |-> "content", Val |-> content]>>]

Directive(prefix, vcs, repo) == prefix \o <<" ">> \o vcs \o <<" ">> \o repo

GitBody == <<MetaTag(GoImport, Directive(ExampleCom, Git, DiscoveredRepo))>>
HgBody == <<MetaTag(GoImport, Directive(ExampleCom, Hg, DiscoveredRepo))>>
\* a directive for another prefix
OtherBody == <<MetaTag(GoImport, Directive(Hg, Git, DiscoveredRepo))>>

\* the transport fails
NoAnswer == [err |-> TRUE, StatusCode |-> 0, Body |-> <<>>]

\* what the HTTP client may answer to the discovery request
Responses ==
    { NoAnswer,
      [err |-> FALSE, StatusCode |-> 404, Body |-> GitBody],
      [err |-> FALSE, StatusCode |-> StatusOK, Body |-> GitBody],
      [err |-> FALSE, StatusCode |-> StatusOK, Body |-> HgBody],
      [err |-> FALSE, StatusCode |-> StatusOK, Body |-> OtherBody],
      [err |-> FALSE, StatusCode |-> StatusOK, Body |-> <<>>] }

Domains == {GithubCom, GitlabCom, BitbucketOrg, GolangOrg, GoogleGolangOrg,
            GoOpentelemetryIo, ExampleCom}
Segs == {<<"x">>, Crypto, Ssh, Empty}
RestSeqs == UNION {[1..n -> Segs] : n \in 0..MaxRest}

\* the import path of a request
PathOf(r) == Join(<<r.domain>> \o r.rest, Slash)

RepoR == GithubCom \o <<"/","u","/","r">>
RepoS == GithubCom \o <<"/","u","/","s">>
RepoREllipsis == RepoR \o Ellipsis
NoDomain == <<"x">>
BatchPaths == {RepoR, RepoREllipsis, RepoS, NoDomain}
DepLists == UNION {[1..n -> BatchPaths] : n \in 0..MaxDeps}
GopathG == <<"/","g">>
Gopaths == {Empty, GopathG}

----------------------------------------------------------------------------
(* the batch run: main with --mod, runGoGetParallel, runGoGet *)

\* g.SetLimit(10)
Limit == 10

Workers == 1..Len(deps)

ZeroResult == [ImportPath |-> Empty, Error |-> Nil, Skipped |-> FALSE]
ZeroLoc == [idx |-> 0, importPath |-> Empty, cmd |-> NoCmd, hasEllipsis |-> FALSE,
            skipped |-> FALSE, err |-> Nil]

\* what the network may answer to the discovery request of the fetch of arg; a
\* fetch that issues no request draws no answer
Answers(arg) ==
    IF HasPrefix(arg, Dot) \/ shouldUseDiscovery(parseImportPath(arg).importPath)
    THEN Responses ELSE {NoAnswer}

\* runGoGet after resolveConfig has answered rc: its error, or buildGitCommand
PlanFrom(rc, https) ==
    IF rc.err # Nil THEN [cmd |-> NoCmd, err |-> rc.err]
    ELSE buildGitCommand(rc.config, https, NoAnswer)

\* the clone plan of an argument, when it has one
PlanOf(arg, gp, https) == PlanFrom(resolveConfig(arg, gp, ProcessCwd), https)

HasPlan(arg, gp, https) == PlanOf(arg, gp, https).err = Nil

\* the marker files a run with the clone plans ps looks for
Markers(ps) ==
    UNION { {modFile(ps[i].cmd), gitDir(ps[i].cmd)} :
              i \in {j \in 1..Len(ps) : ps[j].err = Nil} }

\* the disks a run with the clone plans ps may start on, out of the marker files
\* ms: each destination is absent, or holds a go.mod, or holds a .git
DisksOf(ps, ms) ==
    {files \in SUBSET ms :
        \A i \in {j \in 1..Len(ps) : ps[j].err = Nil} :
            ~({modFile(ps[i].cmd), gitDir(ps[i].cmd)} \subseteq files)}

DisksOfPlans(ps) == DisksOf(ps, Markers(ps))

InitialFiles(ds, gp, https) ==
    DisksOfPlans([i \in 1..Len(ds) |-> PlanOf(ds[i], gp, https)])

IdleBatch ==
    /\ results = <<>>
    /\ writers = <<>>
    /\ outOfOrder = FALSE
    /\ pcMain = "start"
    /\ next = 1
    /\ active = 0
    /\ outputMutex = 0
    /\ parentCancelled = FALSE
    /\ groupCancelled = FALSE
    /\ exitCode = -1
    /\ successCount = 0
    /\ failureCount = 0

IdleScan ==
    /\ cursor = 0
    /\ inRequireBlock = FALSE
    /\ calls = <<>>

IdleResolve ==
    /\ IdleScan
    /\ rstate = "off"
    /\ rq = [domain |-> GithubCom, rest |-> <<>>, https |-> FALSE,
             client |-> NoAnswer]
    /\ ru = Empty
    /\ httpCalls = 0

Init ==
    /\ deps \in DepLists
    /\ gopath \in Gopaths
    /\ useHTTPS = FALSE
    /\ fs \in InitialFiles(deps, gopath, useHTTPS)
    /\ fs0 = fs
    /\ pc = [w \in 1..Len(deps) |-> "idle"]
    /\ loc = [w \in 1..Len(deps) |-> ZeroLoc]
    /\ IdleBatch
    /\ IdleResolve

\* the ctx the workers see: errgroup.WithContext(ctx)
CtxDone == parentCancelled \/ groupCancelled

SemFreeUnlimited == TRUE

\* g.Go blocks until the group has fewer than Limit active goroutines
SemFree == active < Limit

WorkerReturnErr(err) == err

\* "Don't return error - we want to continue fetching all deps": return nil
WorkerReturn(err) == Nil

ResultSlotLoopVar(w) == IF next <= Len(deps) THEN next ELSE Len(deps)

\* results[idx], idx := i captured per iteration
ResultSlot(w) == loc[w].idx

\* main: parseGoMod returned deps; an empty list ends the run, else results is made
Start ==
    /\ pcMain = "start"
    /\ IF Len(deps) = 0
       THEN /\ pcMain' = "exited"
            /\ exitCode' = 0
            /\ UNCHANGED <<results, writers>>
       ELSE /\ pcMain' = "loop"
            /\ results' = [i \in 1..Len(deps) |-> ZeroResult]
            /\ writers' = [i \in 1..Len(deps) |-> <<>>]
            /\ UNCHANGED exitCode
    /\ UNCHANGED <<deps, gopath, useHTTPS, fs, fs0, outOfOrder, next, active, outputMutex,
                   parentCancelled, groupCancelled, pc, loc, successCount, failureCount,
                   resolveVars, scanVars>>

\* one iteration of the loop: g.Go starts the goroutine of deps[next]
Go ==
    /\ pcMain = "loop"
    /\ next <= Len(deps)
    /\ SemFree
    /\ pc' = [pc EXCEPT ![next] = "lock1"]
    /\ loc' = [loc EXCEPT ![next] = [@ EXCEPT !.idx = next, !.importPath = deps[next]]]
    /\ active' = active + 1
    /\ next' = next + 1
    /\ UNCHANGED <<deps, gopath, useHTTPS, fs, fs0, results, writers, outOfOrder, pcMain,
                   outputMutex, parentCancelled, groupCancelled, exitCode, successCount,
                   failureCount, resolveVars, scanVars>>

\* outputMutex.Lock() before the "Fetching" line
Lock1(w) ==
    /\ pc[w] = "lock1"
    /\ outputMutex = 0
    /\ outputMutex' = w
    /\ pc' = [pc EXCEPT ![w] = "print1"]
    /\ UNCHANGED <<deps, gopath, useHTTPS, fs, fs0, results, writers, outOfOrder, pcMain, next,
                   active, parentCancelled, groupCancelled, loc, exitCode, successCount,
                   failureCount, resolveVars, scanVars>>

UnlockForgotten(w) == w

\* outputMutex.Unlock()
Unlock(w) == 0

\* the "Fetching" line is printed; outputMutex.Unlock()
Unlock1(w) ==
    /\ pc[w] = "print1"
    /\ outputMutex' = Unlock(w)
    /\ pc' = [pc EXCEPT ![w] = "fetch"]
    /\ UNCHANGED <<deps, gopath, useHTTPS, fs, fs0, results, writers, outOfOrder, pcMain, next,
                   active, parentCancelled, groupCancelled, loc, exitCode, successCount,
                   failureCount, resolveVars, scanVars>>

SkippedWithError(l) == [l EXCEPT !.skipped = TRUE, !.err = ErrClone]

\* executeGitCommand returns (true, nil), and runGoGet passes it on
SkippedLoc(l) == [l EXCEPT !.skipped = TRUE, !.err = Nil]

\* runGoGet returns (false, err) before any clone
FailedLoc(l, e) == [l EXCEPT !.skipped = FALSE, !.err = e]

OutcomeWithoutPath(l) == [ImportPath |-> Empty, Error |-> l.err, Skipped |-> l.skipped]

\* DependencyResult{ImportPath: importPath, Error: err, Skipped: skipped}
OutcomeOf(l) == [ImportPath |-> l.importPath, Error |-> l.err, Skipped |-> l.skipped]

\* runGoGet has returned to the goroutine of worker w, whose locals are then l:
\* results[idx] = DependencyResult{...}; next is the second outputMutex.Lock()
Returns(w, l) ==
    /\ loc' = [loc EXCEPT ![w] = l]
    /\ results' = [results EXCEPT ![ResultSlot(w)] = OutcomeOf(l)]
    /\ writers' = [writers EXCEPT ![ResultSlot(w)] = Append(@, w)]
    /\ outOfOrder' = (outOfOrder \/ \E v \in 1..(w - 1) : writers[v] = <<>>)
    /\ pc' = [pc EXCEPT ![w] = "lock2"]

\* worker w goes on inside runGoGet, at position p
Continues(w, l, p) ==
    /\ loc' = [loc EXCEPT ![w] = l]
    /\ pc' = [pc EXCEPT ![w] = p]
    /\ UNCHANGED <<results, writers, outOfOrder>>

\* buildGitCommand and what follows it in runGoGet, up to the print of the command
Build(w, config, network) ==
    LET b == buildGitCommand(config, useHTTPS, network)
    IN  IF b.err # Nil
        THEN Returns(w, FailedLoc(loc[w], b.err))
        ELSE Continues(w, [loc[w] EXCEPT !.cmd = b.cmd, !.hasEllipsis = config.HasEllipsis],
                       "printcmd")

\* runGoGet: resolveConfig, then the "Stripping" print or buildGitCommand
Fetch(w) ==
    /\ pc[w] = "fetch"
    /\ \E network \in Answers(loc[w].importPath) :
         LET rc == resolveConfig(loc[w].importPath, gopath, ProcessCwd)
         IN  IF rc.err # Nil THEN Returns(w, FailedLoc(loc[w], rc.err))
             ELSE IF rc.config.HasEllipsis THEN Continues(w, loc[w], "printstrip")
             ELSE Build(w, rc.config, network)
    /\ UNCHANGED <<deps, gopath, useHTTPS, fs, fs0, pcMain, next, active, outputMutex,
                   parentCancelled, groupCancelled, exitCode, successCount, failureCount,
                   resolveVars, scanVars>>

\* the "Stripping /... suffix" line is printed; buildGitCommand
PrintStrip(w) ==
    /\ pc[w] = "printstrip"
    /\ \E network \in Answers(loc[w].importPath) :
         Build(w, resolveConfig(loc[w].importPath, gopath, ProcessCwd).config, network)
    /\ UNCHANGED <<deps, gopath, useHTTPS, fs, fs0, pcMain, next, active, outputMutex,
                   parentCancelled, groupCancelled, exitCode, successCount, failureCount,
                   resolveVars, scanVars>>

OnlyModFile(cmd, files) == modFile(cmd) \in files

\* executeGitCommand's two os.Stat checks: go.mod, then .git
AlreadyThere(cmd, files) == modFile(cmd) \in files \/ gitDir(cmd) \in files

\* exec.CommandContext(ctx, ...): Start refuses to launch once ctx is done
StartRefused(done) == done

\* the "git clone ..." line is printed; executeGitCommand stats go.mod, then .git,
\* then starts the clone
ExecuteGitCommand(w) ==
    /\ pc[w] = "printcmd"
    /\ IF AlreadyThere(loc[w].cmd, fs) THEN Continues(w, loc[w], "printskip")
       ELSE IF StartRefused(CtxDone) THEN Returns(w, FailedLoc(loc[w], ErrCtxCanceled))
       ELSE Continues(w, loc[w], "cloning")
    /\ UNCHANGED <<deps, gopath, useHTTPS, fs, fs0, pcMain, next, active, outputMutex,
                   parentCancelled, groupCancelled, exitCode, successCount, failureCount,
                   resolveVars, scanVars>>

\* the "already exists ... skipping clone" line is printed; return true, nil
PrintSkip(w) ==
    /\ pc[w] = "printskip"
    /\ Returns(w, SkippedLoc(loc[w]))
    /\ UNCHANGED <<deps, gopath, useHTTPS, fs, fs0, pcMain, next, active, outputMutex,
                   parentCancelled, groupCancelled, exitCode, successCount, failureCount,
                   resolveVars, scanVars>>

\* gitCmd.Run() returns: the clone subprocess exited by itself, with or without error
CloneExit(w) ==
    /\ pc[w] = "cloning"
    /\ \E ok \in BOOLEAN :
         IF ok
         THEN /\ fs' = fs \cup {gitDir(loc[w].cmd)}
              /\ IF loc[w].hasEllipsis
                 THEN Continues(w, [loc[w] EXCEPT !.skipped = FALSE, !.err = Nil], "printok")
                 ELSE Returns(w, [loc[w] EXCEPT !.skipped = FALSE, !.err = Nil])
         ELSE /\ fs' = fs
              /\ Returns(w, FailedLoc(loc[w], ErrClone))
    /\ UNCHANGED <<deps, gopath, useHTTPS, fs0, pcMain, next, active, outputMutex,
                   parentCancelled, groupCancelled, exitCode, successCount, failureCount,
                   resolveVars, scanVars>>

KillNever(done) == FALSE

\* exec.CommandContext(ctx, ...): the running subprocess is killed once ctx is done
KillOnDone(done) == done

\* gitCmd.Run() returns because the subprocess was killed; what it had written stays
KillClone(w) ==
    /\ pc[w] = "cloning"
    /\ KillOnDone(CtxDone)
    /\ \E partial \in BOOLEAN :
         fs' = IF partial THEN fs \cup {gitDir(loc[w].cmd)} ELSE fs
    /\ Returns(w, FailedLoc(loc[w], ErrKilled))
    /\ UNCHANGED <<deps, gopath, useHTTPS, fs0, pcMain, next, active, outputMutex,
                   parentCancelled, groupCancelled, exitCode, successCount, failureCount,
                   resolveVars, scanVars>>

\* the "Successfully cloned" line is printed; return skipped, nil
PrintOk(w) ==
    /\ pc[w] = "printok"
    /\ Returns(w, loc[w])
    /\ UNCHANGED <<deps, gopath, useHTTPS, fs, fs0, pcMain, next, active, outputMutex,
                   parentCancelled, groupCancelled, exitCode, successCount, failureCount,
                   resolveVars, scanVars>>

\* outputMutex.Lock() before the result line
Lock2(w) ==
    /\ pc[w] = "lock2"
    /\ outputMutex = 0
    /\ outputMutex' = w
    /\ pc' = [pc EXCEPT ![w] = "print2"]
    /\ UNCHANGED <<deps, gopath, useHTTPS, fs, fs0, results, writers, outOfOrder, pcMain, next,
                   active, parentCancelled, groupCancelled, loc, exitCode, successCount,
                   failureCount, resolveVars, scanVars>>

\* the result line is printed; outputMutex.Unlock(); the function returns and the
\* group releases its token, cancelling its ctx on a non-nil return
Finish(w) ==
    /\ pc[w] = "print2"
    /\ outputMutex' = Unlock(w)
    /\ pc' = [pc EXCEPT ![w] = "done"]
    /\ active' = active - 1
    /\ groupCancelled' = (groupCancelled \/ WorkerReturn(loc[w].err) # Nil)
    /\ UNCHANGED <<deps, gopath, useHTTPS, fs, fs0, results, writers, outOfOrder, pcMain, next,
                   parentCancelled, loc, exitCode, successCount, failureCount,
                   resolveVars, scanVars>>

\* the loop is over and g.Wait() returns: every goroutine has finished
Wait ==
    /\ pcMain = "loop"
    /\ next > Len(deps)
    /\ active = 0
    /\ groupCancelled' = TRUE
    /\ pcMain' = "returned"
    /\ UNCHANGED <<deps, gopath, useHTTPS, fs, fs0, results, writers, outOfOrder, next, active,
                   outputMutex, parentCancelled, pc, loc, exitCode, successCount,
                   failureCount, resolveVars, scanVars>>

RECURSIVE CountErrors(_)
CountErrors(rs) ==
    IF rs = <<>> THEN 0
    ELSE (IF Head(rs).Error # Nil THEN 1 ELSE 0) + CountErrors(Tail(rs))

RECURSIVE CountFetched(_)
CountFetched(rs) ==
    IF rs = <<>> THEN 0
    ELSE (IF Head(rs).Error = Nil /\ ~Head(rs).Skipped THEN 1 ELSE 0)
             + CountFetched(Tail(rs))

\* successCount++ for every result whose Error is nil
RECURSIVE CountOk(_)
CountOk(rs) ==
    IF rs = <<>> THEN 0
    ELSE (IF Head(rs).Error = Nil THEN 1 ELSE 0) + CountOk(Tail(rs))

ExitAlways(failures) == 1

\* os.Exit(1) if failureCount > 0, else return
ExitStatus(failures) == IF failures > 0 THEN 1 ELSE 0

\* main: the summary and the exit status
Summary ==
    /\ pcMain = "returned"
    /\ failureCount' = CountErrors(results)
    /\ successCount' = CountOk(results)
    /\ exitCode' = ExitStatus(CountErrors(results))
    /\ pcMain' = "exited"
    /\ UNCHANGED <<deps, gopath, useHTTPS, fs, fs0, results, writers, outOfOrder, next, active,
                   outputMutex, parentCancelled, groupCancelled, pc, loc, resolveVars, scanVars>>

\* the caller cancels the ctx it passed to runGoGetParallel
Cancel ==
    /\ pcMain = "loop"
    /\ ~parentCancelled
    /\ parentCancelled' = TRUE
    /\ UNCHANGED <<deps, gopath, useHTTPS, fs, fs0, results, writers, outOfOrder, pcMain, next,
                   active, outputMutex, groupCancelled, pc, loc, exitCode, successCount,
                   failureCount, resolveVars, scanVars>>

Worker(w) ==
    \/ Lock1(w)
    \/ Unlock1(w)
    \/ Fetch(w)
    \/ PrintStrip(w)
    \/ ExecuteGitCommand(w)
    \/ PrintSkip(w)
    \/ CloneExit(w)
    \/ KillClone(w)
    \/ PrintOk(w)
    \/ Lock2(w)
    \/ Finish(w)

Next ==
    \/ Start
    \/ Go
    \/ Wait
    \/ Summary
    \/ Cancel
    \/ \E w \in Workers : Worker(w)

Spec == Init /\ [][Next]_vars

----------------------------------------------------------------------------
(* resolution of one import path *)

InitResolve ==
    /\ rstate = "ready"
    /\ rq \in [domain : Domains, rest : RestSeqs, https : BOOLEAN, client : Responses]
    /\ ru = Empty
    /\ httpCalls = 0
    /\ deps = <<>>
    /\ gopath = GopathG
    /\ useHTTPS = FALSE
    /\ fs = {}
    /\ fs0 = {}
    /\ pc = <<>>
    /\ loc = <<>>
    /\ IdleBatch
    /\ IdleScan

Resolve ==
    /\ rstate = "ready"
    /\ ru' = getRepositoryURLWithClient(PathOf(rq), rq.https, rq.client)
    /\ httpCalls' = discoveryCalls(PathOf(rq))
    /\ rstate' = "done"
    /\ UNCHANGED <<rq, batchVars, scanVars>>

NextResolve == Resolve

SpecResolve == InitResolve /\ [][NextResolve]_vars

----------------------------------------------------------------------------
(* the batch run under the fairness the runtime gives: once ctx is done, the *)
(* goroutine exec.CommandContext started kills the subprocess                *)

KillAny == \E w \in Workers : KillClone(w)

\* runs in which every item gets as far as its clone: well-formed paths, GOPATH
\* set, nothing on disk
InitLive ==
    /\ deps \in UNION {[1..n -> {RepoR, RepoREllipsis, RepoS}] : n \in 1..MaxDeps}
    /\ gopath = GopathG
    /\ useHTTPS = FALSE
    /\ fs = {}
    /\ fs0 = fs
    /\ pc = [w \in 1..Len(deps) |-> "idle"]
    /\ loc = [w \in 1..Len(deps) |-> ZeroLoc]
    /\ IdleBatch
    /\ IdleResolve

SpecLive == InitLive /\ [][Next]_vars /\ WF_vars(KillAny)

----------------------------------------------------------------------------
(* the batch run when every goroutine that can take a step eventually takes it: *)
(* the caller's loop and g.Wait, and each worker, whose clone exits by itself   *)

\* the steps of main and of runGoGetParallel's loop
Main == Start \/ Go \/ Wait \/ Summary

\* the steps of worker w, when there is such a worker
WorkerStep(w) == w \in Workers /\ Worker(w)

\* main can take a step: g.Go waits for a free slot, g.Wait for the goroutines
MainReady ==
    \/ pcMain \in {"start", "returned"}
    \/ pcMain = "loop" /\ next <= Len(deps) /\ SemFree
    \/ pcMain = "loop" /\ next > Len(deps) /\ active = 0

\* worker w can take a step: only outputMutex.Lock() waits
WorkerReady(w) ==
    /\ w \in Workers
    /\ \/ pc[w] \in {"print1", "fetch", "printstrip", "printcmd", "printskip", "cloning",
                     "printok", "print2"}
       \/ pc[w] \in {"lock1", "lock2"} /\ outputMutex = 0

\* weak fairness of main and of each worker, their enabling conditions written out
SpecTerm ==
    /\ InitLive
    /\ [][Next]_vars
    /\ []<>(~MainReady) \/ []<><<Main>>_vars
    /\ \A w \in 1..MaxDeps : []<>(~WorkerReady(w)) \/ []<><<WorkerStep(w)>>_vars

----------------------------------------------------------------------------
(* the pool: long dependency lists, each goroutine's body taken as one step  *)
(* from its first Lock to its second; only g.Go, the function's return and   *)
(* g.Wait touch the group's count of active goroutines; the caller does not  *)
(* cancel                                                                    *)

Letters == <<"a","b","c","d","e","f","g","h","i","j","k","l","m","n","o","p">>
PoolPath(i) == GithubCom \o <<"/","u","/">> \o <<Letters[i]>>
PoolDeps(n) == [i \in 1..n |-> PoolPath(i)]

\* runGoGet from executeGitCommand on, the command being cmd
runGoGetExecute(cmd, files, done, cloneOk) ==
    IF AlreadyThere(cmd, files) THEN [skipped |-> TRUE, err |-> Nil, fs |-> files]
    ELSE IF StartRefused(done)
    THEN [skipped |-> FALSE, err |-> ErrCtxCanceled, fs |-> files]
    ELSE IF cloneOk
    THEN [skipped |-> FALSE, err |-> Nil, fs |-> files \cup {gitDir(cmd)}]
    ELSE [skipped |-> FALSE, err |-> ErrClone, fs |-> files]

\* runGoGet after buildGitCommand has answered b
runGoGetBuilt(b, files, done, cloneOk) ==
    IF b.err # Nil THEN [skipped |-> FALSE, err |-> b.err, fs |-> files]
    ELSE runGoGetExecute(b.cmd, files, done, cloneOk)

\* runGoGet after resolveConfig has answered rc
runGoGetResolved(rc, https, network, files, done, cloneOk) ==
    IF rc.err # Nil THEN [skipped |-> FALSE, err |-> rc.err, fs |-> files]
    ELSE runGoGetBuilt(buildGitCommand(rc.config, https, network), files, done, cloneOk)

\* runGoGet run to completion: [skipped, err, fs]
runGoGet(arg, gp, https, network, files, done, cloneOk) ==
    runGoGetResolved(resolveConfig(arg, gp, ProcessCwd), https, network, files, done,
                     cloneOk)

\* the goroutine's body from outputMutex.Lock() (first) to outputMutex.Lock() (second)
Body(w) ==
    /\ pc[w] = "lock1"
    /\ outputMutex = 0
    /\ \E network \in Answers(loc[w].importPath), cloneOk \in BOOLEAN :
         LET r == runGoGet(loc[w].importPath, gopath, useHTTPS, network, fs, CtxDone,
                           cloneOk)
             l == [loc[w] EXCEPT !.skipped = r.skipped, !.err = r.err]
         IN  /\ loc' = [loc EXCEPT ![w] = l]
             /\ results' = [results EXCEPT ![ResultSlot(w)] = OutcomeOf(l)]
             /\ fs' = r.fs
    /\ writers' = [writers EXCEPT ![ResultSlot(w)] = Append(@, w)]
    /\ outOfOrder' = (outOfOrder \/ \E v \in 1..(w - 1) : writers[v] = <<>>)
    /\ outputMutex' = w
    /\ pc' = [pc EXCEPT ![w] = "print2"]
    /\ UNCHANGED <<deps, gopath, useHTTPS, fs0, pcMain, next, active, parentCancelled,
                   groupCancelled, exitCode, successCount, failureCount, resolveVars, scanVars>>

\* a workspace in which every dependency has been fetched before
InitPool ==
    /\ deps \in {PoolDeps(n) : n \in Limit..(Limit + MaxExtra)}
    /\ gopath = GopathG
    /\ useHTTPS = FALSE
    /\ fs = {modFile(PlanOf(deps[i], gopath, useHTTPS).cmd) : i \in 1..Len(deps)}
    /\ fs0 = fs
    /\ pc = [w \in 1..Len(deps) |-> "idle"]
    /\ loc = [w \in 1..Len(deps) |-> ZeroLoc]
    /\ IdleBatch
    /\ IdleResolve

NextPool ==
    \/ Start
    \/ Go
    \/ Wait
    \/ Summary
    \/ \E w \in Workers : Body(w)
    \/ \E w \in Workers : Finish(w)

SpecPool == InitPool /\ [][NextPool]_vars

----------------------------------------------------------------------------
(* properties *)

Returned == pcMain \in {"returned", "exited"} /\ Len(deps) > 0

Executing == {w \in Workers : pc[w] \notin {"idle", "done"}}

Printing(w) == pc[w] \in {"print1", "printstrip", "printcmd", "printskip", "printok",
                          "print2"}

Slots == 1..Len(results)

\* C1: when runGoGetParallel has returned there are exactly as many outcomes as
\* import paths, and outcome i carries import path i, whatever the order in which
\* the workers completed
C1_OutcomesInInputOrder ==
    Returned =>
        /\ Len(results) = Len(deps)
        /\ \A i \in 1..Len(deps) : results[i].ImportPath = deps[i]

\* two different paths, the last worker was the first to store its outcome
C1_Witness ==
    /\ pcMain = "returned"
    /\ Len(deps) >= 2
    /\ deps[1] # deps[2]
    /\ outOfOrder

\* C2: at most 10 workers are executing at any time, for lists longer than 10 too
C2_AtMostTenExecuting == Cardinality(Executing) <= 10

\* ten workers execute while an eleventh dependency waits to be started
C2_Witness ==
    /\ Cardinality(Executing) = 10
    /\ pcMain = "loop"
    /\ next <= Len(deps)
    /\ Len(deps) > 10

\* C3: a failed fetch does not cancel the group's context (only g.Wait returning
\* does), so unless the caller cancels no item fails because of a cancellation;
\* an error in slot i is the error of worker i; on return every slot has an outcome
C3_FailureStaysLocal ==
    /\ groupCancelled => pcMain \in {"returned", "exited"}
    /\ ~parentCancelled =>
           \A i \in Slots : results[i].Error \notin {ErrCtxCanceled, ErrKilled}
    /\ \A i \in Slots : results[i].Error # Nil => results[i].Error = loc[i].err
    /\ Returned => \A i \in Slots : Len(writers[i]) > 0

\* of two items the second failed to clone and stored its error first; the first
\* was cloned all the same
C3_Witness ==
    /\ pcMain = "returned"
    /\ ~parentCancelled
    /\ Len(deps) = 2
    /\ outOfOrder
    /\ results[2].Error = ErrClone
    /\ results[1].Error = Nil
    /\ ~results[1].Skipped

Dest(i) == PlanOf(deps[i], gopath, useHTTPS).cmd.TargetPath

\* the items whose destination had a go.mod or a .git when the run started
PreExisting ==
    {i \in 1..Len(deps) :
        /\ HasPlan(deps[i], gopath, useHTTPS)
        /\ \/ FilepathJoin(<<Dest(i), GoMod>>) \in fs0
           \/ FilepathJoin(<<Dest(i), DotGitDir>>) \in fs0}

SkippedSlots == {i \in Slots : results[i].Skipped}

\* no two items with a destination share it, and none lies beneath another's
DisjointDests ==
    \A i, j \in 1..Len(deps) :
        (i # j /\ HasPlan(deps[i], gopath, useHTTPS) /\ HasPlan(deps[j], gopath, useHTTPS))
            => /\ Dest(i) # Dest(j)
               /\ ~HasPrefix(Dest(i), Dest(j) \o Slash)

\* C4 as stated: exactly the M items whose destination existed before the run are
\* skipped, the other N-M are not
C4_SkipsArePreExisting ==
    Returned => /\ Cardinality(SkippedSlots) = Cardinality(PreExisting)
                /\ Cardinality(Slots \ SkippedSlots) = Len(deps) - Cardinality(PreExisting)

\* C4 amended: the same, for runs in which no two items share or nest destinations
C4_SkipsArePreExistingWhenDisjoint ==
    (Returned /\ DisjointDests) => /\ SkippedSlots = PreExisting
                                   /\ Len(results) = Len(deps)

\* two items with different destinations, one there before the run and skipped,
\* the other cloned
C4_Witness ==
    /\ pcMain = "returned"
    /\ DisjointDests
    /\ \E i, j \in Slots :
         /\ i \in PreExisting /\ results[i].Skipped
         /\ j \notin PreExisting /\ ~results[j].Skipped /\ results[j].Error = Nil
         /\ gitDir(loc[j].cmd) \in fs

\* C5: a worker writes to the console only while it holds outputMutex, so no two
\* workers write at the same time
C5_PrintsHoldMutex ==
    /\ \A w \in Workers : Printing(w) => outputMutex = w
    /\ \A v, w \in Workers : (Printing(v) /\ Printing(w)) => v = w

\* C6: slot i is stored into by worker i only, at most once, and exactly once by
\* the time runGoGetParallel returns
C6_OneWritePerSlot ==
    /\ \A i \in 1..Len(writers) : writers[i] \in {<<>>, <<i>>}
    /\ Returned => \A i \in 1..Len(deps) : writers[i] = <<i>>

\* runGoGetParallel has returned; the second worker stored before the first
C6_Witness ==
    /\ pcMain = "returned"
    /\ Len(deps) = 2
    /\ outOfOrder
    /\ writers = <<<<1>>, <<2>>>>

C8_ExitStatus ==
    pcMain = "exited" =>
        /\ exitCode \in {0, 1}
        /\ (exitCode # 0) <=> (\E i \in Slots : results[i].Error # Nil)

\* a run with a failed item and a fetched or skipped item exits non-zero
C8_Witness ==
    /\ pcMain = "exited"
    /\ exitCode = 1
    /\ \E i, j \in Slots : results[i].Error # Nil /\ results[j].Error = Nil

\* C9: on github.com, gitlab.com and bitbucket.org a path of three or more segments
\* resolves to git@host:seg1/seg2.git, or https://host/seg1/seg2.git with --https
C9_HostTruncatesToOwnerRepo ==
    (rstate = "done" /\ rq.domain \in {GithubCom, GitlabCom, BitbucketOrg}
       /\ Len(rq.rest) >= 2) =>
        ru = IF rq.https
             THEN <<"h","t","t","p","s",":","/","/">> \o rq.domain \o <<"/">> \o rq.rest[1]
                      \o <<"/">> \o rq.rest[2] \o <<".","g","i","t">>
             ELSE <<"g","i","t","@">> \o rq.domain \o <<":">> \o rq.rest[1]
                      \o <<"/">> \o rq.rest[2] \o <<".","g","i","t">>

\* github.com/crypto/ssh/x over ssh: the third segment is dropped
C9_Witness ==
    /\ rstate = "done"
    /\ rq.domain = GithubCom
    /\ rq.rest = <<Crypto, Ssh, <<"x">>>>
    /\ ~rq.https
    /\ ru = GitAt \o GithubCom \o Colon \o Crypto \o Slash \o Ssh \o DotGit

\* C10: under golang.org/x/, google.golang.org/ and go.opentelemetry.io/ the URL is
\* the vendor's template applied to the first segment after the prefix only, with
\* either transport
C10_VendorKeepsFirstSegment ==
    rstate = "done" =>
        /\ (rq.domain = GolangOrg /\ Len(rq.rest) >= 2 /\ rq.rest[1] = <<"x">>)
              => ru = GoGooglesourceURL \o rq.rest[2]
        /\ (rq.domain = GoogleGolangOrg /\ Len(rq.rest) >= 1)
              => ru = GithubGoogleapisURL \o rq.rest[1]
        /\ (rq.domain = GoOpentelemetryIo /\ Len(rq.rest) >= 1)
              => ru = GithubOpenTelemetryURL \o rq.rest[1]

\* resolve("golang.org/x/crypto/ssh", false) = "https://go.googlesource.com/crypto"
C10_Witness ==
    /\ rstate = "done"
    /\ rq.domain = GolangOrg
    /\ rq.rest = <<<<"x">>, Crypto, Ssh>>
    /\ ~rq.https
    /\ ru = <<"h","t","t","p","s",":","/","/","g","o",".","g","o","o","g","l","e","s","o",
              "u","r","c","e",".","c","o","m","/","c","r","y","p","t","o">>

----------------------------------------------------------------------------
(* properties of the resolution of one import path *)

Resolved == rstate = "done"

HostingDomains == {GithubCom, GitlabCom, BitbucketOrg}
VendorDomains == {GolangOrg, GoogleGolangOrg, GoOpentelemetryIo}

\* the request's path is under golang.org/x/, google.golang.org/ or go.opentelemetry.io/
UnderVendorPrefix ==
    \/ rq.domain = GolangOrg /\ Len(rq.rest) >= 2 /\ rq.rest[1] = <<"x">>
    \/ rq.domain \in {GoogleGolangOrg, GoOpentelemetryIo} /\ Len(rq.rest) >= 1

\* the request's domain is one discovery is tried for
Eligible == rq.domain \notin (HostingDomains \cup VendorDomains)

\* the answer to the discovery request carries a git directive for the path
AnswerIsGit ==
    ~rq.client.err /\ rq.client.StatusCode = 200 /\ rq.client.Body = GitBody

\* the whole path after the domain, in the ssh or the https form
WholePathURL ==
    IF rq.rest = <<>>
    THEN (IF rq.https THEN <<"h","t","t","p","s",":","/","/">> \o rq.domain
                               \o <<".","g","i","t">>
          ELSE <<"g","i","t","@">> \o rq.domain \o <<".","g","i","t">>)
    ELSE (IF rq.https
          THEN <<"h","t","t","p","s",":","/","/">> \o rq.domain \o <<"/">>
                   \o Join(rq.rest, <<"/">>) \o <<".","g","i","t">>
          ELSE <<"g","i","t","@">> \o rq.domain \o <<":">> \o Join(rq.rest, <<"/">>)
                   \o <<".","g","i","t">>)

\* C11 as stated: off the hosting domains and the vendor prefixes, the URL carries
\* the whole path after the domain, untruncated
C11_WholePathKept ==
    (Resolved /\ rq.domain \notin HostingDomains /\ ~UnderVendorPrefix)
        => ru = WholePathURL

\* C11 amended: the same, unless discovery answered with a git repository, whose
\* URL is then returned instead
C11_WholePathKeptWithoutDiscovery ==
    (Resolved /\ rq.domain \notin HostingDomains /\ ~UnderVendorPrefix
       /\ ~(Eligible /\ AnswerIsGit))
        => ru = WholePathURL

\* resolve("example.com/crypto/ssh/x", false) = "git@example.com:crypto/ssh/x.git"
\* after a failed discovery
C11_Witness ==
    /\ Resolved
    /\ rq.domain = ExampleCom
    /\ rq.rest = <<Crypto, Ssh, <<"x">>>>
    /\ ~rq.https
    /\ rq.client.err
    /\ ru = <<"g","i","t","@">> \o ExampleCom
              \o <<":","c","r","y","p","t","o","/","s","s","h","/","x",".","g","i","t">>

\* C12: one discovery request is issued when the domain is none of the three
\* hosting domains and none of the three vendor domains, and none otherwise
C12_DiscoveryOnlyOffKnownDomains ==
    Resolved =>
        httpCalls = IF rq.domain \in {GithubCom, GitlabCom, BitbucketOrg, GolangOrg,
                                      GoogleGolangOrg, GoOpentelemetryIo}
                    THEN 0 ELSE 1

\* golang.org/crypto is under no vendor prefix, yet no request is issued for it
C12_Witness ==
    /\ Resolved
    /\ rq.domain = GolangOrg
    /\ rq.rest = <<Crypto>>
    /\ httpCalls = 0

\* C13: when discovery answers with a git repository, its URL is returned as it is,
\* with either transport
C13_DiscoveredGitWins ==
    (Resolved /\ Eligible /\ AnswerIsGit) => ru = DiscoveredRepo

\* example.com/crypto/ssh with --https: the discovered URL, not the https fallback
C13_Witness ==
    /\ Resolved
    /\ rq.domain = ExampleCom
    /\ rq.rest = <<Crypto, Ssh>>
    /\ rq.https
    /\ AnswerIsGit
    /\ ru = DiscoveredRepo
    /\ ru # WholePathURL

\* discovery failed: transport error, status other than 200, or no matching directive
DiscoveryFailed ==
    \/ rq.client.err
    \/ rq.client.StatusCode # 200
    \/ rq.client.Body \in {<<>>, OtherBody}

\* discovery answered with a directive of another version-control kind
DiscoveredOtherVcs ==
    ~rq.client.err /\ rq.client.StatusCode = 200 /\ rq.client.Body = HgBody

\* C14: when discovery fails or reports another version-control kind, the URL is
\* the one the heuristic rules give for the path and the transport, never empty
C14_FallsBackToHeuristics ==
    (Resolved /\ Eligible /\ (DiscoveryFailed \/ DiscoveredOtherVcs)) =>
        /\ ru = heuristicURL(PathOf(rq), rq.https)
        /\ ru # Empty

\* discovery reported hg for example.com/crypto: the https fallback is returned
C14_Witness ==
    /\ Resolved
    /\ rq.domain = ExampleCom
    /\ rq.rest = <<Crypto>>
    /\ rq.https
    /\ DiscoveredOtherVcs
    /\ ru = <<"h","t","t","p","s",":","/","/">> \o ExampleCom
              \o <<"/","c","r","y","p","t","o",".","g","i","t">>

----------------------------------------------------------------------------
(* discovery of one import path, token by token: discoverGoImport and the   *)
(* loop of parseGoImportMeta                                                *)

DiscoverPath == ExampleCom \o <<"/","x">>
OtherRepo == HttpsScheme \o <<"h","/","s">>

Tag(type, data, name, content) ==
    [Type |-> type, Data |-> data,
     Attr |-> <<[Key |-> "name", Val |-> name], [Key |-> "content", Val |-> content]>>]

\* a token of a response body, with what it is: gi, a meta tag named go-import;
\* nfields, the number of whitespace-separated fields of its content; isPrefix,
\* its first field is a prefix of DiscoverPath; vcs and repo, its second and third
Entry(tok, gi, nfields, isPrefix, vcs, repo) ==
    [tok |-> tok, gi |-> gi, nfields |-> nfields, isPrefix |-> isPrefix, vcs |-> vcs,
     repo |-> repo]

GoodGit ==
    Entry(Tag("SelfClosingTag", "meta", GoImport,
              Directive(ExampleCom, Git, DiscoveredRepo)),
          TRUE, 3, TRUE, Git, DiscoveredRepo)
\* a start tag, whose prefix "e" ends inside a path element
GoodHg ==
    Entry(Tag("StartTag", "meta", GoImport, Directive(<<"e">>, Hg, OtherRepo)),
          TRUE, 3, TRUE, Hg, OtherRepo)
\* fields separated and surrounded by runs of blanks and tabs
GoodSpaced ==
    Entry(Tag("StartTag", "meta", GoImport,
              <<" ", "\t">> \o DiscoverPath \o <<"\t", " ">> \o Git \o <<" ", " ">>
                  \o OtherRepo \o <<" ">>),
          TRUE, 3, TRUE, Git, OtherRepo)
WrongPrefix ==
    Entry(Tag("StartTag", "meta", GoImport, Directive(Hg, Git, DiscoveredRepo)),
          TRUE, 3, FALSE, Git, DiscoveredRepo)
LongerPrefix ==
    Entry(Tag("StartTag", "meta", GoImport,
              Directive(DiscoverPath \o <<"/","y">>, Git, DiscoveredRepo)),
          TRUE, 3, FALSE, Git, DiscoveredRepo)
TwoFields ==
    Entry(Tag("StartTag", "meta", GoImport, ExampleCom \o <<" ">> \o Git),
          TRUE, 2, TRUE, Git, Empty)
FourFields ==
    Entry(Tag("StartTag", "meta", GoImport,
              Directive(ExampleCom, Git, DiscoveredRepo) \o <<" ", "x">>),
          TRUE, 4, TRUE, Git, DiscoveredRepo)
OtherMeta ==
    Entry(Tag("StartTag", "meta", <<"d">>, Directive(ExampleCom, Git, DiscoveredRepo)),
          FALSE, 3, TRUE, Git, DiscoveredRepo)
NotMeta ==
    Entry(Tag("StartTag", "title", GoImport, Directive(ExampleCom, Git, DiscoveredRepo)),
          FALSE, 3, TRUE, Git, DiscoveredRepo)
TextToken ==
    Entry([Type |-> "TextToken", Data |-> "x", Attr |-> <<>>], FALSE, 0, FALSE, Empty,
          Empty)
\* the tokenizer fails to read on
ReadError ==
    Entry([Type |-> "ErrorToken", Data |-> "", Attr |-> <<>>], FALSE, 0, FALSE, Empty,
          Empty)

Entries == {GoodGit, GoodHg, GoodSpaced, WrongPrefix, LongerPrefix, TwoFields,
            FourFields, OtherMeta, NotMeta, TextToken, ReadError}
Docs == UNION {[1..n -> Entries] : n \in 0..MaxTags}

\* the token stream the tokenizer yields for a document
DocTokens(doc) == [i \in 1..Len(doc) |-> doc[i].tok]

InitDiscover ==
    /\ rstate = "ready"
    /\ rq \in [importPath : {DiscoverPath}, err : BOOLEAN, StatusCode : {StatusOK, 404},
               doc : Docs]
    /\ ru = Failed(Nil)
    /\ httpCalls = 0
    /\ deps = <<>>
    /\ gopath = GopathG
    /\ useHTTPS = FALSE
    /\ fs = {}
    /\ fs0 = {}
    /\ pc = <<>>
    /\ loc = <<>>
    /\ IdleBatch
    /\ IdleScan

\* discoverGoImport up to the call of parseGoImportMeta
Get ==
    /\ rstate = "ready"
    /\ httpCalls' = httpCalls + 1
    /\ IF rq.err THEN ru' = Failed(ErrFetch) /\ rstate' = "done"
       ELSE IF ~OkStatus(rq.StatusCode) THEN ru' = Failed(ErrStatus) /\ rstate' = "done"
       ELSE ru' = ru /\ rstate' = "parsing"
    /\ UNCHANGED <<rq, batchVars, scanVars>>

\* the loop of parseGoImportMeta has taken the directive d from the token just read
Loop(d) ==
    IF d.ok
    THEN ru' = [vcs |-> d.vcs, repoURL |-> d.repoURL, err |-> Nil] /\ rstate' = "done"
    ELSE ru' = ru /\ rstate' = "parsing"

\* tokenizer.Next() and one pass of the loop of parseGoImportMeta
NextToken ==
    /\ rstate = "parsing"
    /\ IF cursor = Len(rq.doc)
       THEN ru' = Failed(ErrNoMeta) /\ rstate' = "done" /\ cursor' = cursor
       ELSE /\ cursor' = cursor + 1
            /\ IF rq.doc[cursor + 1].tok.Type = "ErrorToken"
               THEN ru' = Failed(ErrRead) /\ rstate' = "done"
               ELSE Loop(tokenDirective(rq.doc[cursor + 1].tok, rq.importPath))
    /\ UNCHANGED <<rq, httpCalls, inRequireBlock, calls, batchVars>>

NextDiscover == Get \/ NextToken

SpecDiscover == InitDiscover /\ [][NextDiscover]_vars

----------------------------------------------------------------------------
(* properties of discovery *)

Discovered == rstate = "done"

\* the response was received with status 200
Answered == ~rq.err /\ rq.StatusCode = 200

\* the body was read to its end, or to where parsing stopped, without a read error
ReadOk == \A i \in 1..cursor : rq.doc[i] # ReadError

GoImportTags == {i \in 1..Len(rq.doc) : rq.doc[i].gi}

\* the tags named go-import with exactly three fields whose prefix matches
Qualifying == {i \in GoImportTags : rq.doc[i].nfields = 3 /\ rq.doc[i].isPrefix}

\* C15: with a single go-import tag, three fields succeed exactly when the first is
\* a prefix of the path, two or four fields fail; with no go-import tag the error is
\* "no go-import meta tag found", which is not the transport's error
C15_SingleTag ==
    (Discovered /\ Answered /\ ReadOk) =>
        /\ \A i \in GoImportTags :
             GoImportTags = {i} =>
                 /\ rq.doc[i].nfields = 3 => (ru.err = Nil <=> rq.doc[i].isPrefix)
                 /\ rq.doc[i].nfields \in {2, 4} => ru.err # Nil
        /\ GoImportTags = {} =>
             /\ ru.err = "no go-import meta tag found"
             /\ ru.err # ErrFetch

\* a document whose only go-import tag has the prefix "e" parses to that tag's hg
\* directive
C15_Witness ==
    /\ Discovered
    /\ Answered
    /\ rq.doc = <<OtherMeta, GoodHg>>
    /\ ru = [vcs |-> Hg, repoURL |-> OtherRepo, err |-> Nil]

\* C16: the result is the directive of the first qualifying tag in document order,
\* whatever precedes it, and nothing after it is read; without a qualifying tag the
\* body is read to its end and parsing fails
C16_FirstQualifyingTag ==
    (Discovered /\ Answered /\ ReadOk) =>
        /\ \A i \in Qualifying :
             (\A j \in Qualifying : i <= j) =>
                 /\ ru = [vcs |-> rq.doc[i].vcs, repoURL |-> rq.doc[i].repo, err |-> Nil]
                 /\ cursor = i
        /\ Qualifying = {} =>
             /\ ru.err = "no go-import meta tag found"
             /\ cursor = Len(rq.doc)

\* a malformed tag is skipped, the next tag is taken
C16_Witness ==
    /\ Discovered
    /\ Answered
    /\ Len(rq.doc) = 2
    /\ rq.doc[1] = FourFields
    /\ rq.doc[2] = GoodGit
    /\ ru = [vcs |-> Git, repoURL |-> DiscoveredRepo, err |-> Nil]
    /\ cursor = 2

\* C17: a transport error or a status other than 200 is an error and the body is
\* not read, whatever it holds; a directive is returned only for a 200 response
C17_OnlyOkIsParsed ==
    /\ (rq.err \/ rq.StatusCode # 200) =>
           /\ cursor = 0
           /\ rstate # "parsing"
           /\ Discovered => ru.err # Nil
    /\ (Discovered /\ ru.err = Nil) => (~rq.err /\ rq.StatusCode = 200)

\* a 404 whose body holds a valid matching tag is an error
C17_Witness ==
    /\ Discovered
    /\ ~rq.err
    /\ rq.StatusCode = 404
    /\ rq.doc = <<GoodGit>>
    /\ ru.err = ErrStatus
    /\ cursor = 0

----------------------------------------------------------------------------
(* the manifest scanner, line by line: parseGoMod *)

RequireOpen == <<"r","e","q","u","i","r","e"," ","(">>
RequireSpace == <<"r","e","q","u","i","r","e"," ">>
CloseParen == <<")">>

ErrOpen == "failed to open go.mod file"
ErrScan == "error reading go.mod file"

EntersOnRequire(line) == HasPrefix(line, <<"r","e","q","u","i","r","e">>)

\* if strings.HasPrefix(line, "require (")
EntersBlock(line) == HasPrefix(line, RequireOpen)

\* if inRequireBlock && strings.HasPrefix(line, ")")
LeavesBlock(line, inBlock) == inBlock /\ HasPrefix(line, CloseParen)

\* depLine: the line itself inside a block, a "require " line without that prefix
\* outside, else ""
depLineOf(line, inBlock) ==
    IF inBlock THEN line
    ELSE IF HasPrefix(line, RequireSpace) THEN TrimPrefix(line, RequireSpace)
    ELSE Empty

AnyFields(fields) == Len(fields) >= 1

\* if len(fields) >= 2
EnoughFields(fields) == Len(fields) >= 2

\* deps after fields := strings.Fields(depLine)
appendDep(ds, fields) == IF EnoughFields(fields) THEN Append(ds, fields[1]) ELSE ds

\* deps after a line that neither enters nor leaves a block
depsAfter(ds, depLine) == IF depLine = Empty THEN ds ELSE appendDep(ds, Fields(depLine))

\* one pass of the loop on line := strings.TrimSpace(scanner.Text()): [inBlock, deps]
scanLine(line, inBlock, ds) ==
    IF EntersBlock(line) THEN [inBlock |-> TRUE, deps |-> ds]
    ELSE IF LeavesBlock(line, inBlock) THEN [inBlock |-> FALSE, deps |-> ds]
    ELSE [inBlock |-> inBlock, deps |-> depsAfter(ds, depLineOf(line, inBlock))]

\* lines a manifest may hold
LineOpen == RequireOpen
LineClose == CloseParen
LineCloseMore == <<")"," ","x">>
LineSingle == <<"r","e","q","u","i","r","e"," ","a"," ","v","1">>
LineIndented == <<"\t","b"," ","v","1"," ","/","/"," ","i","n","d","i","r","e","c","t">>
LineSingleBare == <<"r","e","q","u","i","r","e"," ","a">>
LineBlank == Empty
LineOpenMore == <<"r","e","q","u","i","r","e"," ","(","x"," ","v","1">>

Lines == {LineOpen, LineClose, LineCloseMore, LineSingle, LineIndented, LineSingleBare,
          LineBlank, LineOpenMore}
Manifests == UNION {[1..n -> Lines] : n \in 0..MaxLines}

\* fault: 0, the file is read to its end; -1, os.Open fails; k > 0, the scanner
\* fails instead of yielding line k
Faults(lines) == (-1)..Len(lines)

InitScan ==
    /\ rstate = "ready"
    /\ \E lines \in Manifests : rq \in [lines : {lines}, fault : Faults(lines)]
    /\ ru = [deps |-> <<>>, err |-> Nil]
    /\ httpCalls = 0
    /\ deps = <<>>
    /\ gopath = GopathG
    /\ useHTTPS = FALSE
    /\ fs = {}
    /\ fs0 = {}
    /\ pc = <<>>
    /\ loc = <<>>
    /\ IdleBatch
    /\ IdleScan

\* os.Open(modPath)
Open ==
    /\ rstate = "ready"
    /\ IF rq.fault = -1
       THEN ru' = [deps |-> <<>>, err |-> ErrOpen] /\ rstate' = "done"
       ELSE ru' = ru /\ rstate' = "scanning"
    /\ UNCHANGED <<rq, httpCalls, batchVars, scanVars>>

\* the state after one pass of the loop
Scanned(r) ==
    /\ inRequireBlock' = r.inBlock
    /\ ru' = [ru EXCEPT !.deps = r.deps]

\* scanner.Scan() yields a line; one pass of the loop
ScanLine ==
    /\ rstate = "scanning"
    /\ cursor < Len(rq.lines)
    /\ rq.fault # cursor + 1
    /\ cursor' = cursor + 1
    /\ Scanned(scanLine(TrimSpace(rq.lines[cursor + 1]), inRequireBlock, ru.deps))
    /\ UNCHANGED <<rstate, rq, httpCalls, calls, batchVars>>

\* scanner.Scan() returns false: the end of the file, or scanner.Err()
ScanEnd ==
    /\ rstate = "scanning"
    /\ cursor = Len(rq.lines) \/ rq.fault = cursor + 1
    /\ ru' = IF rq.fault = cursor + 1 THEN [deps |-> <<>>, err |-> ErrScan]
             ELSE [deps |-> ru.deps, err |-> Nil]
    /\ rstate' = "done"
    /\ UNCHANGED <<rq, httpCalls, batchVars, scanVars>>

NextScan == Open \/ ScanLine \/ ScanEnd

SpecScan == InitScan /\ [][NextScan]_vars

----------------------------------------------------------------------------
(* properties of the manifest scanner *)

ScanDone == rstate = "done"

\* line i without its leading and trailing white space
Trimmed(i) == TrimSpace(rq.lines[i])

Opens(i) == HasPrefix(Trimmed(i), <<"r","e","q","u","i","r","e"," ","(">>)
Closes(i) == HasPrefix(Trimmed(i), <<")">>)

\* line i is read inside a block: a line before it opened one, and no line between
\* the two closed it
Inside(i) == \E j \in 1..(i - 1) : Opens(j) /\ \A k \in (j + 1)..(i - 1) : ~Closes(k)

\* what of line i is a candidate: the line inside a block; the rest of a
\* "require " line outside; nothing of the lines that open or close a block
CandidateText(i) ==
    IF Opens(i) \/ (Inside(i) /\ Closes(i)) THEN <<>>
    ELSE IF Inside(i) THEN Trimmed(i)
    ELSE IF HasPrefix(Trimmed(i), <<"r","e","q","u","i","r","e"," ">>)
    THEN SubSeq(Trimmed(i), 9, Len(Trimmed(i)))
    ELSE <<>>

Contributing ==
    SelectSeq([i \in 1..Len(rq.lines) |-> i], LAMBDA i : Len(Fields(CandidateText(i))) >= 2)

ExpectedDeps == [k \in 1..Len(Contributing) |-> Fields(CandidateText(Contributing[k]))[1]]

\* C18: a manifest read without failure yields, in file order, the first field of
\* every candidate line that has at least two fields, and no error; none yields <<>>
C18_FirstFieldsInOrder ==
    (ScanDone /\ rq.fault = 0) =>
        /\ ru.err = Nil
        /\ ru.deps = ExpectedDeps

\* a single-line declaration, then a block with an annotated line: a, then b
C18_Witness ==
    /\ ScanDone
    /\ rq.fault = 0
    /\ Len(rq.lines) = 3
    /\ rq.lines[1] = LineSingle /\ rq.lines[2] = LineOpen /\ rq.lines[3] = LineIndented
    /\ ru = [deps |-> <<<<"a">>, <<"b">>>>, err |-> Nil]

\* the line the step reads
ReadLine == TrimSpace(rq.lines[cursor + 1])

\* C19 as stated: the block state becomes true only on a line equal to "require (",
\* false only on a line starting with ")" read inside the block, and those lines add
\* no dependency
C19_BlockState ==
    [][cursor' = cursor + 1 =>
          /\ (~inRequireBlock /\ inRequireBlock')
                 => ReadLine = <<"r","e","q","u","i","r","e"," ","(">>
          /\ (inRequireBlock /\ ~inRequireBlock') => HasPrefix(ReadLine, <<")">>)
          /\ (inRequireBlock' # inRequireBlock) => ru'.deps = ru.deps]_vars

\* C19 amended: the block state becomes true only on a line starting with
\* "require (", false only on a line starting with ")" read inside the block, and
\* those lines add no dependency
C19_BlockStateByPrefix ==
    [][cursor' = cursor + 1 =>
          /\ inRequireBlock' =
                IF HasPrefix(ReadLine, <<"r","e","q","u","i","r","e"," ","(">>) THEN TRUE
                ELSE IF inRequireBlock /\ HasPrefix(ReadLine, <<")">>) THEN FALSE
                ELSE inRequireBlock
          /\ (HasPrefix(ReadLine, <<"r","e","q","u","i","r","e"," ","(">>)
                \/ (inRequireBlock /\ HasPrefix(ReadLine, <<")">>)))
                 => ru'.deps = ru.deps]_vars

\* "require (x v1" opened a block, in which "b v1 // indirect" gave b, and ") x"
\* closed it
C19_Witness ==
    /\ ScanDone
    /\ rq.fault = 0
    /\ Len(rq.lines) = 3
    /\ rq.lines[1] = LineOpenMore /\ rq.lines[2] = LineIndented
    /\ rq.lines[3] = LineCloseMore
    /\ ~inRequireBlock
    /\ ru.deps = <<<<"b">>>>

----------------------------------------------------------------------------
(* one fetch, call by call: runGoGet and executeGitCommand *)

\* what is asked of the outside
GetCall(importPath) ==
    [op |-> "client.Get", arg |-> HttpsScheme \o importPath \o <<"?","g","o","-","g","e","t","=","1">>]
StatCall(path) == [op |-> "os.Stat", arg |-> path]
CloneCall(cmd) == [op |-> "git", arg |-> cmd.Args]

StatFails(path, files) == FALSE

\* if _, err := os.Stat(path); err == nil
StatOk(path, files) == path \in files

\* a .git one level above the destination, as in a monorepo
parentGitDir(cmd) == FilepathJoin(<<cmd.TargetPath, DotDot, DotGitDir>>)

\* the disks the fetch of plan p may start on: any of go.mod and .git at the
\* destination, and a .git above it
FetchDisks(p) ==
    IF p.err # Nil THEN {{}}
    ELSE SUBSET {modFile(p.cmd), gitDir(p.cmd), parentGitDir(p.cmd)}

NoFetch == [cmd |-> NoCmd, skipped |-> FALSE, err |-> Nil]

\* the arguments of one fetch: those of the batch, and one on a domain that is asked
FetchPaths == BatchPaths \cup {DiscoverPath}

\* the import path buildGitCommand hands to getRepositoryURL, when it gets that far
lookupOf(config) ==
    IF ~HasPrefix(config.ImportPath, Dot) THEN [ok |-> TRUE, path |-> config.ImportPath]
    ELSE IF config.WorkingDir = Empty THEN [ok |-> FALSE, path |-> Empty]
    ELSE IF Rel(config.GOPATH, Abs(config.WorkingDir)).err # Nil
            \/ ~HasPrefix(Rel(config.GOPATH, Abs(config.WorkingDir)).rel, SrcSlash)
    THEN [ok |-> FALSE, path |-> Empty]
    ELSE [ok |-> TRUE,
          path |-> FilepathJoin(<<TrimPrefix(Rel(config.GOPATH, Abs(config.WorkingDir)).rel,
                                             SrcSlash),
                                  config.ImportPath>>)]

\* the discovery requests of getRepositoryURL for the import path of lookup l
requestsOf(l) ==
    IF l.ok /\ shouldUseDiscovery(l.path) THEN <<GetCall(l.path)>> ELSE <<>>

\* the discovery requests of one runGoGet whose resolveConfig has answered rc
requestsFor(rc) == IF rc.err # Nil THEN <<>> ELSE requestsOf(lookupOf(rc.config))

\* runGoGet after resolveConfig has answered rc, the network answering client
PlanWith(rc, https, client) ==
    IF rc.err # Nil THEN [cmd |-> NoCmd, err |-> rc.err]
    ELSE buildGitCommand(rc.config, https, client)

RunAgainOnFailure(ok) == IF ok THEN "done" ELSE "run"

\* return false, gitCmd.Run()
RunReturns(ok) == "done"

InitFetch ==
    /\ rstate = "ready"
    /\ \E arg \in FetchPaths : rq \in [arg : {arg}, done : BOOLEAN, client : Answers(arg)]
    /\ gopath \in Gopaths
    /\ useHTTPS \in BOOLEAN
    /\ fs \in FetchDisks(PlanOf(rq.arg, gopath, useHTTPS))
    /\ fs0 = fs
    /\ ru = NoFetch
    /\ httpCalls = 0
    /\ deps = <<>>
    /\ pc = <<>>
    /\ loc = <<>>
    /\ IdleBatch
    /\ IdleScan

\* runGoGet after buildGitCommand (or resolveConfig) has answered b
Planned(b) ==
    IF b.err # Nil
    THEN ru' = [ru EXCEPT !.err = b.err] /\ rstate' = "done"
    ELSE ru' = [ru EXCEPT !.cmd = b.cmd] /\ rstate' = "statmod"

\* resolveConfig, buildGitCommand with its discovery request, the "git clone ..." line
Plan ==
    /\ rstate = "ready"
    /\ Planned(PlanWith(resolveConfig(rq.arg, gopath, ProcessCwd), useHTTPS, rq.client))
    /\ calls' = calls \o requestsFor(resolveConfig(rq.arg, gopath, ProcessCwd))
    /\ UNCHANGED <<rq, httpCalls, batchVars, cursor, inRequireBlock>>

\* return true, nil
Skip == ru' = [ru EXCEPT !.skipped = TRUE] /\ rstate' = "done"

\* os.Stat(modFile)
StatModFile ==
    /\ rstate = "statmod"
    /\ calls' = Append(calls, StatCall(modFile(ru.cmd)))
    /\ IF StatOk(modFile(ru.cmd), fs) THEN Skip
       ELSE ru' = ru /\ rstate' = "statgit"
    /\ UNCHANGED <<rq, httpCalls, batchVars, cursor, inRequireBlock>>

\* os.Stat(gitDir)
StatGitDir ==
    /\ rstate = "statgit"
    /\ calls' = Append(calls, StatCall(gitDir(ru.cmd)))
    /\ IF StatOk(gitDir(ru.cmd), fs) THEN Skip
       ELSE ru' = ru /\ rstate' = "run"
    /\ UNCHANGED <<rq, httpCalls, batchVars, cursor, inRequireBlock>>

\* gitCmd.Run(): not started when ctx is done; else git clone runs, and exits with
\* or without error
Run ==
    /\ rstate = "run"
    /\ IF StartRefused(rq.done)
       THEN /\ ru' = [ru EXCEPT !.err = ErrCtxCanceled]
            /\ rstate' = "done"
            /\ UNCHANGED <<calls, fs>>
       ELSE /\ calls' = Append(calls, CloneCall(ru.cmd))
            /\ \E ok \in BOOLEAN :
                 /\ rstate' = RunReturns(ok)
                 /\ IF ok THEN fs' = fs \cup {gitDir(ru.cmd)} /\ ru' = ru
                    ELSE fs' = fs /\ ru' = [ru EXCEPT !.err = ErrClone]
    /\ UNCHANGED <<rq, httpCalls, deps, gopath, useHTTPS, fs0, results, writers,
                   outOfOrder, pcMain, next, active, outputMutex, parentCancelled,
                   groupCancelled, pc, loc, exitCode, successCount, failureCount,
                   cursor, inRequireBlock>>

NextFetch == Plan \/ StatModFile \/ StatGitDir \/ Run

SpecFetch == InitFetch /\ [][NextFetch]_vars

----------------------------------------------------------------------------
(* properties of one fetch *)

FetchDone == rstate = "done" /\ ru.cmd # NoCmd

CloneInvoked == \E i \in 1..Len(calls) : calls[i].op = "git"

Stated(path) == \E i \in 1..Len(calls) : calls[i] = [op |-> "os.Stat", arg |-> path]

\* the two markers directly at the destination, on the disk the fetch started on
HadGoMod == (ru.cmd.TargetPath \o <<"/","g","o",".","m","o","d">>) \in fs0
HadDotGit == (ru.cmd.TargetPath \o <<"/",".","g","i","t">>) \in fs0

\* C20: git clone is invoked only if neither go.mod nor .git is at the destination;
\* with go.mod the fetch is skipped and .git is not looked for; else with .git it is
\* skipped; no clone in either case
C20_CloneOnlyWithoutMarkers ==
    /\ CloneInvoked => (~HadGoMod /\ ~HadDotGit)
    /\ (FetchDone /\ HadGoMod) =>
           /\ ru.skipped /\ ru.err = Nil
           /\ ~Stated(ru.cmd.TargetPath \o <<"/",".","g","i","t">>)
           /\ ~CloneInvoked
    /\ (FetchDone /\ ~HadGoMod /\ HadDotGit) =>
           /\ ru.skipped /\ ru.err = Nil
           /\ ~CloneInvoked

\* /g/src/github.com/u/r holds both go.mod and .git: skipped after the one stat of
\* go.mod
C20_Witness ==
    /\ FetchDone
    /\ rq.arg = RepoREllipsis
    /\ HadGoMod /\ HadDotGit
    /\ ru.skipped
    /\ calls = <<[op |-> "os.Stat",
                  arg |-> GopathG \o <<"/","s","r","c","/">> \o RepoR
                            \o <<"/","g","o",".","m","o","d">>]>>

\* how many of the calls were op
CountOf(op) == Cardinality({i \in 1..Len(calls) : calls[i].op = op})

\* C25: one fetch makes at most one discovery request and starts git clone at most
\* once, whether they succeed or fail
C25_NoRetry ==
    /\ CountOf("client.Get") <= 1
    /\ CountOf("git") <= 1

\* example.com/x: the discovery request failed, the heuristic URL was cloned, and
\* the clone failed; one request and one clone were made
C25_Witness ==
    /\ rstate = "done"
    /\ rq.arg = DiscoverPath /\ rq.client.err
    /\ ru.err = "error running git: exit status"
    /\ CountOf("client.Get") = 1
    /\ CountOf("git") = 1

----------------------------------------------------------------------------
(* the clone plan of one argument: resolveConfig, runGoGet's warning, buildGitCommand *)

PlanArgs == {<<>>, <<"/",".",".",".">>, <<"x">>, <<"a",".","b">>,
             <<"a",".","b","/",".",".",".">>, <<"a",".","b","/","c","/",".",".",".","/",".",".",".">>,
             <<"g","i","t","h","u","b",".","c","o","m","/","u","/","r">>, <<"e","x","a","m","p","l","e",".","c","o","m","/","x","/",".",".",".">>,
             <<"a",".","b","/","/","c">>, <<".","/","r">>, <<".","/","r","/",".",".",".">>,
             <<".",".","/",".",".","/",".",".","/","r">>, <<".","/","g","i","t","h","u","b",".","c","o","m","/","u","/","r">>}
PlanGopaths == {<<>>, <<"/","g">>, <<"/","g",":","/","h">>, <<"g">>}
PlanDirs == {<<>>,
             <<"/","g","/","s","r","c","/","g","i","t","h","u","b",".","c","o","m","/","u">>,
             <<"/","g","/","s","r","c">>,
             <<"/","g">>,
             <<"/","h","/","s","r","c","/","g","i","t","h","u","b",".","c","o","m","/","u">>}
PlanClients == {NoAnswer, [err |-> FALSE, StatusCode |-> StatusOK, Body |-> GitBody]}

NoPlan == [config |-> NoConfig, cmd |-> NoCmd, err |-> Nil]

\* log.Printf("WARN: multiple paths in GOPATH; goget only works with first one")
WarnCall == [op |-> "log.Printf", arg |-> "WARN: multiple paths in GOPATH"]

InitPlan ==
    /\ rstate = "ready"
    /\ rq \in [arg : PlanArgs, gopath : PlanGopaths, workingDir : PlanDirs,
               https : BOOLEAN, client : PlanClients]
    /\ ru = NoPlan
    /\ httpCalls = 0
    /\ deps = <<>>
    /\ gopath = GopathG
    /\ useHTTPS = FALSE
    /\ fs = {}
    /\ fs0 = {}
    /\ pc = <<>>
    /\ loc = <<>>
    /\ IdleBatch
    /\ IdleScan

\* runGoGet after resolveConfig has answered rc
Configured(rc) ==
    IF rc.err # Nil
    THEN ru' = [ru EXCEPT !.err = rc.err] /\ rstate' = "done"
    ELSE ru' = [ru EXCEPT !.config = rc.config] /\ rstate' = "resolved"

\* config, err := resolveConfig(arg, gopath, workingDir)
ResolveConfig ==
    /\ rstate = "ready"
    /\ Configured(resolveConfig(rq.arg, rq.gopath, rq.workingDir))
    /\ UNCHANGED <<rq, httpCalls, batchVars, scanVars>>

\* runGoGet after buildGitCommand has answered b
Built(b) == ru' = [ru EXCEPT !.cmd = b.cmd, !.err = b.err]

\* if strings.Contains(config.GOPATH, ":") { log.Printf(...) }, then buildGitCommand
BuildGitCommand ==
    /\ rstate = "resolved"
    /\ calls' = IF Contains(ru.config.GOPATH, ":") THEN Append(calls, WarnCall) ELSE calls
    /\ Built(buildGitCommand(ru.config, rq.https, rq.client))
    /\ rstate' = "done"
    /\ UNCHANGED <<rq, httpCalls, batchVars, cursor, inRequireBlock>>

NextPlan == ResolveConfig \/ BuildGitCommand

SpecPlan == InitPlan /\ [][NextPlan]_vars

----------------------------------------------------------------------------
(* properties of the clone plan *)

\* resolveConfig gave a configuration, and buildGitCommand has answered
PlanDone == rstate = "done" /\ ru.config # NoConfig

RelativePath == ru.config.ImportPath # <<>> /\ ru.config.ImportPath[1] = "."

\* the import path resolved from the working directory
ResolvedFromWD ==
    Clean((IF rq.workingDir = <<>> THEN ProcessCwd ELSE rq.workingDir)
              \o <<"/">> \o ru.config.ImportPath)

InsideSrc == HasPrefix(ResolvedFromWD, ru.config.GOPATH \o <<"/","s","r","c","/">>)

\* C21: the plan of a relative import path is built if and only if the path,
\* resolved from the working directory, lies inside <root>/src
C21_RelativeInsideSrc ==
    (PlanDone /\ RelativePath) => (ru.err = Nil <=> InsideSrc)

EndsWithEllipsis ==
    /\ Len(rq.arg) >= 4
    /\ SubSeq(rq.arg, Len(rq.arg) - 3, Len(rq.arg)) = <<"/",".",".",".">>

\* the argument without one "/..." suffix
Classified == IF EndsWithEllipsis THEN SubSeq(rq.arg, 1, Len(rq.arg) - 4) ELSE rq.arg

\* the first "/"-separated segment of the classified path contains a dot
DomainFirst ==
    \E i \in 1..Len(Classified) :
        Classified[i] = "." /\ \A j \in 1..i : Classified[j] # "/"

\* C22: an empty argument fails; else one "/..." suffix is stripped and flagged, or
\* the argument is kept unflagged; the result is rejected unless its first segment
\* has a dot
C22_Classification ==
    rstate # "ready" =>
        IF rq.arg = <<>> THEN ru.err = "empty import path"
        ELSE IF ~DomainFirst
        THEN ru.err = "first part of package path should be a domain name"
        ELSE IF rq.gopath = <<>> THEN ru.err = "cannot clone without GOPATH set"
        ELSE /\ ru.config.ImportPath = Classified
             /\ ru.config.HasEllipsis = EndsWithEllipsis
             /\ rstate = "resolved" => ru.err = Nil

\* a.b/c/.../... loses one suffix and is flagged
C22_Witness ==
    /\ rstate = "resolved"
    /\ rq.arg = <<"a",".","b","/","c","/",".",".",".","/",".",".",".">>
    /\ ru.config.ImportPath = <<"a",".","b","/","c","/",".",".",".">>
    /\ ru.config.HasEllipsis

\* C23: a plan built without error has a URL and a destination, its arguments are
\* clone, --quiet, URL, destination; the destination is <root>/src/<import path>, or
\* the import path itself when that is relative
C23_PlanWellFormed ==
    (PlanDone /\ ru.err = Nil) =>
        /\ ru.cmd.URL # <<>>
        /\ ru.cmd.TargetPath # <<>>
        /\ ru.cmd.Args = <<"clone", "--quiet", ru.cmd.URL, ru.cmd.TargetPath>>
        /\ ru.cmd.TargetPath =
              IF RelativePath THEN ru.config.ImportPath
              ELSE Clean(ru.config.GOPATH \o <<"/","s","r","c","/">> \o ru.config.ImportPath)

\* ./r under /g/src/github.com/u
C23_Witness ==
    /\ PlanDone /\ ru.err = Nil
    /\ rq.arg = <<".","/","r">> /\ ~rq.https
    /\ ru.cmd.URL = <<"g","i","t","@","g","i","t","h","u","b",".","c","o","m",":","u","/",
                      "r",".","g","i","t">>
    /\ ru.cmd.TargetPath = <<".","/","r">>

MultipleRoots == \E i \in 1..Len(rq.gopath) : rq.gopath[i] = ":"

\* the first entry of the root list
FirstRoot ==
    IF MultipleRoots
    THEN SubSeq(rq.gopath, 1,
                (CHOOSE i \in 1..Len(rq.gopath) :
                    rq.gopath[i] = ":" /\ \A j \in 1..(i - 1) : rq.gopath[j] # ":") - 1)
    ELSE rq.gopath

Warned == \E i \in 1..Len(calls) : calls[i].op = "log.Printf"

\* C24: with a path-list separator in GOPATH the first entry is the root and a
\* warning is emitted; without, the whole value is the root and nothing is emitted
C24_FirstRootWithWarning ==
    PlanDone =>
        /\ ru.config.GOPATH = Abs(FirstRoot)
        /\ Warned <=> MultipleRoots

----------------------------------------------------------------------------
(* properties of the batch run's termination *)

----------------------------------------------------------------------------
(* properties of the outcomes and of the summary *)

\* C27: no outcome is both skipped and failed, in a worker's locals or in results
C27_SkippedHasNoError ==
    /\ \A w \in Workers : loc[w].skipped => loc[w].err = Nil
    /\ \A i \in Slots : results[i].Skipped => results[i].Error = Nil

\* one item was skipped, another failed
C27_Witness ==
    /\ Returned
    /\ \E i, j \in Slots :
         /\ results[i].Skipped /\ results[i].Error = Nil
         /\ ~results[j].Skipped /\ results[j].Error # Nil

Summarised == pcMain = "exited" /\ Len(deps) > 0

\* C28: in the summary the two counts add up to N, the failures are the outcomes
\* with an error, and every other outcome, skipped ones included, is a success
C28_CountsAddUp ==
    Summarised =>
        /\ successCount + failureCount = Len(deps)
        /\ failureCount = Cardinality({i \in Slots : results[i].Error # Nil})
        /\ successCount = Cardinality({i \in Slots : results[i].Error = Nil})

\* a skipped item and a failed one: one success, one failure
C28_Witness ==
    /\ Summarised
    /\ Len(deps) = 2
    /\ \E i, j \in Slots : results[i].Skipped /\ results[j].Error # Nil
    /\ successCount = 1 /\ failureCount = 1

----------------------------------------------------------------------------
(* properties of the vendor domains and of the directive's prefix *)

\* the address the hard-coded rule of a vendor domain puts before the repository
VendorBase(domain) ==
    IF domain = <<"g","o","l","a","n","g",".","o","r","g">>
    THEN <<"h","t","t","p","s",":","/","/","g","o",".","g","o","o","g","l","e","s","o","u",
           "r","c","e",".","c","o","m","/">>
    ELSE IF domain = <<"g","o","o","g","l","e",".","g","o","l","a","n","g",".","o","r","g">>
    THEN <<"h","t","t","p","s",":","/","/","g","i","t","h","u","b",".","c","o","m","/",
           "g","o","o","g","l","e","a","p","i","s","/">>
    ELSE <<"h","t","t","p","s",":","/","/","g","i","t","h","u","b",".","c","o","m","/",
           "o","p","e","n","-","t","e","l","e","m","e","t","r","y","/">>

\* C29: a path on a vendor domain, for which no discovery request is made, resolves
\* by that vendor's rule, never by the generic one
C29_VendorDomainUsesVendorRule ==
    (Resolved /\ rq.domain \in VendorDomains) =>
        /\ httpCalls = 0
        /\ HasPrefix(ru, VendorBase(rq.domain))

\* the well-formed go-import tags of the document: named go-import, three fields
WellFormed == {i \in GoImportTags : rq.doc[i].nfields = 3}

\* the prefix field of tag i
PrefixField(i) == Fields(rq.doc[i].tok.Attr[2].Val)[1]

\* p is the beginning of s, character by character
StartsWith(s, p) == Len(p) <= Len(s) /\ \A k \in 1..Len(p) : s[k] = p[k]

\* C30: a well-formed directive that is read is accepted exactly when its prefix
\* field is a string prefix of the requested path, wherever in a path segment the
\* prefix ends
C30_PlainStringPrefix ==
    (Discovered /\ Answered /\ ReadOk) =>
        \A i \in WellFormed :
            i <= cursor =>
                ((i = cursor /\ ru.err = Nil) <=> StartsWith(rq.importPath, PrefixField(i)))

\* for example.com/x the prefix example.com/x/y, longer than the path, is passed
\* over, and the prefix "e", which ends inside example.com, is accepted
C30_Witness ==
    /\ Discovered
    /\ Answered
    /\ rq.doc = <<LongerPrefix, GoodHg>>
    /\ PrefixField(1) = rq.importPath \o <<"/","y">>
    /\ PrefixField(2) = <<"e">>
    /\ cursor = 2
    /\ ru = [vcs |-> Hg, repoURL |-> OtherRepo, err |-> Nil]

====
